---- MODULE Spec2Model ----
(***************************************************************************)
(* Model of the smart-scraper enrichment engine of Shopify-Service-Python: *)
(*   app/smart_scraper/scraper_service.py  enrich_row_with_scraped_data    *)
(*   app/smart_scraper/search_engine.py    find_product_url and helpers    *)
(*   app/smart_scraper/extractors.py       fetch, scrape_product           *)
(*                                                                         *)
(* One behaviour is one call of enrich_row_with_scraped_data on one row.   *)
(* The call is cut at its HTTP fetches: every fetch is one action whose    *)
(* response (unavailable, or a document) is chosen by the environment.     *)
(*                                                                         *)
(* Python values are tagged records [t, v]; a Python str is a sequence of  *)
(* tokens (short literal pieces of text), so that substring tests, URL     *)
(* resolution, stripping and joining are computed, not assumed.            *)
(***************************************************************************)
EXTENDS Integers, Sequences, FiniteSets, TLC

\* ------------------------------------------------------------------ bounds
MaxAnchors == 2      \* anchors in a search-result document
MaxImgs    == 2      \* img elements in a product page
MaxOptions == 1      \* option elements in a product page
MaxBody    == 2      \* signature tokens in a homepage body

\* ------------------------------------------------------------ Python values
S(s)  == [t |-> "str", v |-> s]
None  == [t |-> "NoneType", v |-> <<>>]
NaN   == [t |-> "float", v |-> <<"nan">>]      \* pandas' value of an empty cell

IsStr(x) == x.t = "str"

\* bool(x): None and "" are falsy; float('nan') and non-empty strings are truthy
Truthy(x) ==
  CASE x.t = "NoneType" -> FALSE
    [] x.t = "str"      -> x.v # <<>>
    [] OTHER            -> TRUE

\* a or b
PyOr(a, b) == IF Truthy(a) THEN a ELSE b

\* dict.get(key, default)
Get(d, key, default) == IF key \in DOMAIN d THEN d[key] ELSE default

\* d[key] = value
Put(d, key, value) ==
  [k \in (DOMAIN d) \cup {key} |-> IF k = key THEN value ELSE d[k]]

EmptyDict == [k \in {} |-> None]

\* ------------------------------------------------------------------ strings
RECURSIVE Concat(_)
Concat(ss) == IF ss = <<>> THEN <<>> ELSE Head(ss) \o Concat(Tail(ss))

\* sep.join(list)
RECURSIVE Join(_, _)
Join(sep, list) ==
  IF list = <<>> THEN <<>>
  ELSE IF Len(list) = 1 THEN list[1]
  ELSE list[1] \o sep \o Join(sep, Tail(list))

\* substring test at token granularity: which literal pieces contain which
\* patterns (tokens are chosen so that no pattern straddles two tokens)
TokHas(tok, pat) ==
  CASE pat = "/products/" -> tok \in {"/products/"}
    [] pat = "/product"   -> tok \in {"/products/", "/product/"}
    [] pat = "product"    -> tok \in {"/products/", "/product/", "-product-"}
    [] OTHER              -> tok = pat

Contains(s, pat) == \E i \in 1..Len(s) : TokHas(s[i], pat)

\* --------------------------------------------------------------------- URLs
Origins == {"http://shop.example", "http://other.example"}

\* an absolute URL starts with scheme and host
IsAbsoluteUrl(s) == s # <<>> /\ Head(s) \in Origins

RootedToks == {"/products/", "/product/", "/url?q=", "/shop/", "/about", "/my"}

\* urllib.parse.urljoin(base, href) for an absolute http base without path
urljoin(base, href) ==
  IF href = <<>> THEN base
  ELSE IF Head(href) \in Origins THEN href
  ELSE IF Head(href) \in RootedToks THEN <<Head(base)>> \o href
  ELSE <<Head(base), "/">> \o href

\* urllib.parse.quote(term): raises TypeError unless term is str (or bytes)
QuoteRaises(term) == ~IsStr(term)
QuoteTok(tok) ==
  CASE tok = " "                   -> "%20"
    [] tok = " site:"              -> "%20site%3A"
    [] tok = "http://shop.example" -> "http%3A//shop.example"
    [] OTHER                       -> tok
quote(s) == [i \in 1..Len(s) |-> QuoteTok(s[i])]

\* ------------------------------------------------- search_engine.py helpers
Lower(tok) ==
  CASE tok = "WooCommerce"     -> "woocommerce"
    [] tok = "WP-CONTENT"      -> "wp-content"
    [] tok = "cdn.Shopify.com" -> "shopify"
    [] tok = ".XLS"            -> ".xls"
    [] tok = "ABC123"          -> "abc123"
    [] tok = "NaN"             -> "nan"
    [] tok = ".Csv"            -> ".csv"
    [] OTHER                   -> tok

lower(s) == [i \in 1..Len(s) |-> Lower(s[i])]

\* mutant: the Shopify test comes first
detect_platform_ShopifyFirst(html) ==
  LET h == lower(html) IN
    IF Contains(h, "shopify") THEN "shopify"
    ELSE IF Contains(h, "woocommerce") \/ Contains(h, "wp-content") THEN "wordpress"
    ELSE "custom"

detect_platform(html) ==
  LET h == lower(html) IN
    IF Contains(h, "woocommerce") \/ Contains(h, "wp-content") THEN "wordpress"
    ELSE IF Contains(h, "shopify") THEN "shopify"
    ELSE "custom"

search_wordpress(base, query) == base \o <<"/?s=">> \o quote(query) \o <<"&post_type=product">>
search_shopify(base, query)   == base \o <<"/search?q=">> \o quote(query)
search_custom(base, query)    == base \o <<"/search?q=">> \o quote(query)
google_search(query)          == <<"https://www.google.com/search?q=">> \o quote(query)

\* the search URL chosen by the platform branch of find_product_url
search_url(platform, base, term) ==
  IF platform = "wordpress" THEN search_wordpress(base, term)
  ELSE IF platform = "shopify" THEN search_shopify(base, term)
  ELSE search_custom(base, term)

\* str(x) as used by the f-string of the fallback query
Fmt(x) == IF IsStr(x) THEN x.v ELSE IF x.t = "float" THEN <<"nan">> ELSE <<"None">>

\* requests.get raises (and get_search_page / fetch returns None) unless the
\* URL is a str with an http scheme and a host
Fetchable(url) == IsStr(url) /\ IsAbsoluteUrl(url.v)

\* An anchor element: href is None when the attribute is missing.
HasHref(a) == IsStr(a.href)

\* soup.select_one(selector): index of the first element in document order
\* among those that match the selector, 0 when none does
SelectOne(hits) ==
  IF hits = {} THEN 0 ELSE CHOOSE i \in hits : \A j \in hits : i <= j

MatchProducts(a) == HasHref(a) /\ Contains(a.href.v, "/products/")   \* a[href*='/products/']
MatchWoo(a)      == a.woo                                             \* a.woocommerce-loop-product__link
MatchProduct(a)  == HasHref(a) /\ Contains(a.href.v, "product")       \* a[href*='product']
MatchFallback(a) == HasHref(a) /\ Contains(a.href.v, "/product")      \* a[href*='/product']

SelProducts(doc) == SelectOne({i \in 1..Len(doc) : MatchProducts(doc[i])})
SelWoo(doc)      == SelectOne({i \in 1..Len(doc) : MatchWoo(doc[i])})
SelProduct(doc)  == SelectOne({i \in 1..Len(doc) : MatchProduct(doc[i])})
SelFallback(doc) == SelectOne({i \in 1..Len(doc) : MatchFallback(doc[i])})

\* The rule cascade of find_product_url on one search-result document:
\* the anchor that wins, 0 when no rule matches
ResultLink(doc) ==
  IF SelProducts(doc) # 0 THEN SelProducts(doc)
  ELSE IF SelWoo(doc) # 0 THEN SelWoo(doc)
  ELSE SelProduct(doc)

\* link["href"] raises KeyError when the winning anchor has no href
ResultRaises(doc) == ResultLink(doc) # 0 /\ ~HasHref(doc[ResultLink(doc)])

\* href.replace("/url?q=", "")
StripWrapper(s) == SelectSeq(s, LAMBDA tok : tok # "/url?q=")

\* href.split("&")[0]
AmpToks == {"&sa=U"}
RECURSIVE BeforeAmp(_)
BeforeAmp(s) ==
  IF s = <<>> \/ Head(s) \in AmpToks THEN <<>>
  ELSE <<Head(s)>> \o BeforeAmp(Tail(s))

FallbackHref(href) == BeforeAmp(StripWrapper(href))

\* ---------------------------------------------------- extractors.py helpers
\* get_text(strip=True) of an element with one text node
RECURSIVE LStrip(_)
LStrip(s) == IF s # <<>> /\ Head(s) = " " THEN LStrip(Tail(s)) ELSE s
RECURSIVE RStrip(_)
RStrip(s) == IF s # <<>> /\ s[Len(s)] = " " THEN RStrip(SubSeq(s, 1, Len(s) - 1)) ELSE s
Strip(s) == RStrip(LStrip(s))

\* select_one(...) then get_text(strip=True), "" when nothing matches
FirstText(els) == IF els = <<>> THEN <<>> ELSE Strip(els[1])

\* select_one(...) then str(element), "" when nothing matches
FirstMarkup(els) == IF els = <<>> THEN <<>> ELSE els[1]

\* img.get("data-src") or img.get("src")
ImgSrc(img) == PyOr(img.data_src, img.src)

\* src and src.startswith("http")
KeepImg(img) == Truthy(ImgSrc(img)) /\ IsStr(ImgSrc(img)) /\ Head(ImgSrc(img).v) \in Origins

\* the imgs list before de-duplication, in document order
RECURSIVE CollectImgs(_)
CollectImgs(imgs) ==
  IF imgs = <<>> THEN <<>>
  ELSE (IF KeepImg(Head(imgs)) THEN <<ImgSrc(Head(imgs)).v>> ELSE <<>>)
       \o CollectImgs(Tail(imgs))

Range(f) == {f[i] : i \in DOMAIN f}

\* list(set(imgs)): the distinct elements in an order the interpreter picks
\* (string hashing is salted per process), i.e. any arrangement of the set
ListOfSet(imgs) ==
  LET U == Range(imgs) IN
    {l \in [1..Cardinality(U) -> U] : Range(l) = U}

\* text.lower() of an option label
LowerLabel(s) == [i \in 1..Len(s) |-> IF s[i] = "Choose an option" THEN "choose an option" ELSE s[i]]

KeepOption(text) == text # <<>> /\ LowerLabel(text) # <<"choose an option">>

RECURSIVE CollectVariants(_)
CollectVariants(options) ==
  IF options = <<>> THEN <<>>
  ELSE (IF KeepOption(Strip(Head(options))) THEN <<Strip(Head(options))>> ELSE <<>>)
       \o CollectVariants(Tail(options))

\* the dict scrape_product returns for a fetched page, given the order that
\* list(set(imgs)) produced
ScrapedOf(page, images) ==
  [title       |-> S(FirstText(page.title_els)),
   price       |-> S(FirstText(page.price_els)),
   description |-> S(FirstMarkup(page.desc_els)),
   images      |-> images,
   variants    |-> CollectVariants(page.options)]

\* ------------------------------------------------- scraper_service.py merge
\* lines 21-31 of enrich_row_with_scraped_data
\* mutant: the scraped value always overwrites
FillIfBlank_Always(r, key, value) == Put(r, key, value)

FillIfBlank(r, key, value) ==
  IF ~Truthy(Get(r, key, None)) THEN Put(r, key, value) ELSE r

\* mutant: IMAGES and VARIANTS are filled only when blank
MergeScraped_FillOnly(r, sc) ==
  LET r1 == FillIfBlank(r,  "DESCRIPTION_HTML", Get(sc, "description", None))
      r2 == FillIfBlank(r1, "TITLE",            Get(sc, "title", None))
      r3 == FillIfBlank(r2, "PRICE",            Get(sc, "price", None))
      r4 == FillIfBlank(r3, "IMAGES",   S(Join(<<", ">>, Get(sc, "images", <<>>))))
      r5 == FillIfBlank(r4, "VARIANTS", S(Join(<<", ">>, Get(sc, "variants", <<>>))))
  IN r5

MergeScraped(r, sc) ==
  LET r1 == FillIfBlank(r,  "DESCRIPTION_HTML", Get(sc, "description", None))
      r2 == FillIfBlank(r1, "TITLE",            Get(sc, "title", None))
      r3 == FillIfBlank(r2, "PRICE",            Get(sc, "price", None))
      r4 == Put(r3, "IMAGES",   S(Join(<<", ">>, Get(sc, "images", <<>>))))
      r5 == Put(r4, "VARIANTS", S(Join(<<", ">>, Get(sc, "variants", <<>>))))
  IN r5

\* row.get("WEBSITE") or row.get("URL") or row.get("BASE_URL")
WebsiteOf(r) ==
  PyOr(PyOr(Get(r, "WEBSITE", None), Get(r, "URL", None)), Get(r, "BASE_URL", None))

\* ------------------------------------------------------------------- inputs
Shop == <<"http://shop.example">>

Missing == [t |-> "missing", v |-> <<>>]       \* the key is not in the dict

TitleVals == {Missing, S(<<>>), S(<<"Red Mug">>), NaN}
SkuVals   == {S(<<>>), S(<<"ABC123">>), NaN}

\* the three site fields: WEBSITE, URL, BASE_URL
SiteConfigs ==
  { <<Missing, Missing, Missing>>,
    <<S(<<>>), Missing, Missing>>,
    <<None, S(<<>>), None>>,
    <<S(Shop), Missing, Missing>>,
    <<S(<<>>), S(Shop), Missing>>,
    <<Missing, None, S(Shop)>>,
    <<S(<<"shop.example">>), Missing, Missing>>,
    <<NaN, Missing, Missing>> }

OldImages   == S(<<"http://shop.example", "/old.png">>)
OldVariants == S(<<"S", ", ", "M">>)
OldDesc     == S(<<"<p>vendor</p>">>)
OldPrice    == S(<<"9.99">>)
OldUrl      == S(<<"http://shop.example", "/stale">>)

\* PRICE, DESCRIPTION_HTML, IMAGES, VARIANTS, SCRAPED_PRODUCT_URL
Payloads ==
  { <<Missing,  Missing, Missing,   Missing,     Missing>>,
    <<S(<<>>),  None,    OldImages, OldVariants, OldUrl>>,
    <<OldPrice, OldDesc, OldImages, Missing,     Missing>>,
    <<OldPrice, S(<<>>), Missing,   OldVariants, OldUrl>> }

Keys == <<"TITLE", "SKU", "WEBSITE", "URL", "BASE_URL", "PRICE",
          "DESCRIPTION_HTML", "IMAGES", "VARIANTS", "SCRAPED_PRODUCT_URL">>

\* the dict holding the given cells, keys of Missing cells left out
MkRow(cells) ==
  LET present == {i \in 1..Len(Keys) : cells[i] # Missing}
      idx(k)  == CHOOSE i \in present : Keys[i] = k
  IN [k \in {Keys[i] : i \in present} |-> cells[idx(k)]]

InitRows ==
  { MkRow(<<t, s>> \o site \o pay) :
      t \in TitleVals, s \in SkuVals, site \in SiteConfigs, pay \in Payloads }

BodyToks == {"hello", "wp-content", "WP-CONTENT", "WooCommerce", "woocommerce",
             "cdn.Shopify.com", "shopify"}

SeqsUpTo(A, n) == UNION {[1..m -> A] : m \in 0..n}

HomeBodies == SeqsUpTo(BodyToks, MaxBody)

Anchors ==
  { [href |-> S(<<"/products/", "abc123">>),              woo |-> TRUE],
    [href |-> S(<<"/shop/", "item-9">>),                  woo |-> TRUE],
    [href |-> None,                                       woo |-> TRUE],
    [href |-> S(<<"/my", "-product-", "list">>),          woo |-> FALSE],
    [href |-> S(<<"/about">>),                            woo |-> FALSE],
    [href |-> S(<<"http://other.example", "/products/", "x">>), woo |-> FALSE],
    [href |-> S(<<"/url?q=", "http://shop.example", "/product/", "abc123", "&sa=U">>),
                                                          woo |-> FALSE] }

SearchDocs == SeqsUpTo(Anchors, MaxAnchors)

ImgA == S(<<"http://shop.example", "/a.png">>)
ImgB == S(<<"http://shop.example", "/b.png">>)
ImgRel == S(<<"/rel.png">>)

Imgs ==
  { [data_src |-> None,   src |-> ImgA],
    [data_src |-> ImgB,   src |-> ImgA],
    [data_src |-> ImgRel, src |-> ImgA] }

OptionTexts == { <<"Choose an option">>, <<" ", "Large", " ">>, <<" ">> }

\* title, price and description elements found by the three selectors
TextEls ==
  { <<<<>>, <<>>, <<>>>>,
    << <<<<" ", "Scraped Mug", " ">>>>, <<<<"$12">>>>, <<<<"<div id=description>d</div>">>>> >>,
    << <<<<" ">>>>, <<>>, <<<<"<div id=description>d</div>">>>> >> }

ProductPages ==
  { [title_els |-> te[1], price_els |-> te[2], desc_els |-> te[3],
     imgs |-> im, options |-> op] :
      te \in TextEls, im \in SeqsUpTo(Imgs, MaxImgs),
      op \in SeqsUpTo(OptionTexts, MaxOptions) }

\* -------------------------------------------------------------------- state
VARIABLES
  pc,           \* position in enrich_row_with_scraped_data / find_product_url
  row,          \* the dict being enriched
  row0,         \* the dict as it was passed in (history)
  args,         \* base_url, name, sku of the find_product_url call
  platform,     \* find_product_url: platform
  ti,           \* find_product_url: index of the loop over search_terms
  product_url,  \* what find_product_url returned
  outcome,      \* per search term: what became of it (history)
  fetches,      \* every get_search_page / fetch call so far (history)
  imgs,         \* scrape_product: the imgs list before de-duplication
  scraped,      \* the dict scrape_product returned
  probe,        \* one call of a document function: its input and its result
  sync,         \* sync_all_vendor_files: its locals and the Drive folders
  proc          \* process_product_file_bytes: its locals and the catalog

\* the variables of one enrich_row_with_scraped_data call
enrich_vars == <<pc, row, row0, args, platform, ti, product_url, outcome,
                 fetches, imgs, scraped>>

vars == <<pc, row, row0, args, platform, ti, product_url, outcome,
          fetches, imgs, scraped, probe, sync, proc>>

\* values of the variables a specification does not use
NoProbe == [fn |-> "none"]
NoSync  == [pc |-> "none"]
NoProc  == [pc |-> "none"]

NoArgs == [base_url |-> None, name |-> None, sku |-> None]

Init ==
  /\ row \in InitRows
  /\ row0 = row
  /\ pc = "enrich"
  /\ args = NoArgs
  /\ platform = "none"
  /\ ti = 0
  /\ product_url = None
  /\ outcome = [i \in 1..2 |-> "pending"]
  /\ fetches = <<>>
  /\ imgs = <<>>
  /\ scraped = EmptyDict
  /\ probe = NoProbe
  /\ sync = NoSync
  /\ proc = NoProc

Call(kind, url, ok) == [kind |-> kind, url |-> url, ok |-> ok]

\* search_terms = [sku, name]
search_terms == <<args.sku, args.name>>
TermKind == <<"sku", "name">>

\* mutant: the "if not website" early return is missing
Enter_NoSiteCheck ==
  /\ pc = "enrich"
  /\ pc' = "home"
  /\ args' = [base_url |-> WebsiteOf(row),
              name     |-> Get(row, "TITLE", S(<<>>)),
              sku      |-> Get(row, "SKU", S(<<>>))]
  /\ UNCHANGED <<row, row0, platform, ti, product_url, outcome,
                 fetches, imgs, scraped>>
  /\ UNCHANGED <<probe, sync, proc>>

\* scraper_service.py:5-13
Enter ==
  /\ pc = "enrich"
  /\ IF ~Truthy(WebsiteOf(row))
     THEN /\ pc' = "returned"
          /\ UNCHANGED args
     ELSE /\ pc' = "home"
          /\ args' = [base_url |-> WebsiteOf(row),
                      name     |-> Get(row, "TITLE", S(<<>>)),
                      sku      |-> Get(row, "SKU", S(<<>>))]
  /\ UNCHANGED <<row, row0, platform, ti, product_url, outcome,
                 fetches, imgs, scraped>>
  /\ UNCHANGED <<probe, sync, proc>>

\* mutant: an unavailable homepage does not end the search
FetchHome_NoReturn ==
  /\ pc = "home"
  /\ \/ /\ fetches' = Append(fetches, Call("home", Fmt(args.base_url), FALSE))
        /\ platform' = "custom"
        /\ ti' = 1
        /\ pc' = "terms"
        /\ UNCHANGED product_url
     \/ /\ Fetchable(args.base_url)
        /\ \E body \in HomeBodies :
             platform' = detect_platform(body)
        /\ fetches' = Append(fetches, Call("home", args.base_url.v, TRUE))
        /\ ti' = 1
        /\ pc' = "terms"
        /\ UNCHANGED product_url
  /\ UNCHANGED <<row, row0, args, outcome, imgs, scraped>>
  /\ UNCHANGED <<probe, sync, proc>>

\* search_engine.py:39-43
FetchHome ==
  /\ pc = "home"
  /\ \/ /\ fetches' = Append(fetches, Call("home", Fmt(args.base_url), FALSE))
        /\ product_url' = None
        /\ pc' = "found"
        /\ UNCHANGED <<platform, ti>>
     \/ /\ Fetchable(args.base_url)
        /\ \E body \in HomeBodies :
             platform' = detect_platform(body)
        /\ fetches' = Append(fetches, Call("home", args.base_url.v, TRUE))
        /\ ti' = 1
        /\ pc' = "terms"
        /\ UNCHANGED product_url
  /\ UNCHANGED <<row, row0, args, outcome, imgs, scraped>>
  /\ UNCHANGED <<probe, sync, proc>>

\* search_engine.py:45-47
SkipTerm ==
  /\ pc = "terms"
  /\ ti \in 1..2
  /\ ~Truthy(search_terms[ti])
  /\ outcome' = [outcome EXCEPT ![ti] = "empty"]
  /\ ti' = ti + 1
  /\ UNCHANGED <<pc, row, row0, args, platform, product_url, fetches,
                 imgs, scraped>>
  /\ UNCHANGED <<probe, sync, proc>>

\* search_engine.py:49-54 when quote() raises TypeError
SearchUrlRaises ==
  /\ pc = "terms"
  /\ ti \in 1..2
  /\ Truthy(search_terms[ti])
  /\ QuoteRaises(search_terms[ti])
  /\ outcome' = [outcome EXCEPT ![ti] = "raised"]
  /\ pc' = "raised"
  /\ UNCHANGED <<row, row0, args, platform, ti, product_url, fetches,
                 imgs, scraped>>
  /\ UNCHANGED <<probe, sync, proc>>

\* mutant: a hit is remembered but the loop goes on to the next term
SearchTerm_NoShortCircuit ==
  /\ pc = "terms"
  /\ ti \in 1..2
  /\ Truthy(search_terms[ti])
  /\ ~QuoteRaises(search_terms[ti])
  /\ LET url == search_url(platform, args.base_url.v, search_terms[ti].v) IN
     \/ /\ fetches' = Append(fetches, Call(TermKind[ti], url, FALSE))
        /\ outcome' = [outcome EXCEPT ![ti] = "unavailable"]
        /\ UNCHANGED product_url
     \/ \E doc \in SearchDocs :
          /\ fetches' = Append(fetches, Call(TermKind[ti], url, TRUE))
          /\ ResultLink(doc) # 0 => ~ResultRaises(doc)
          /\ IF ResultLink(doc) = 0
             THEN /\ outcome' = [outcome EXCEPT ![ti] = "nomatch"]
                  /\ UNCHANGED product_url
             ELSE /\ outcome' = [outcome EXCEPT ![ti] = "hit"]
                  /\ product_url' = S(urljoin(args.base_url.v, doc[ResultLink(doc)].href.v))
  /\ ti' = ti + 1
  /\ UNCHANGED <<pc, row, row0, args, platform, imgs, scraped>>
  /\ UNCHANGED <<probe, sync, proc>>

\* search_engine.py:49-72
SearchTerm ==
  /\ pc = "terms"
  /\ ti \in 1..2
  /\ Truthy(search_terms[ti])
  /\ ~QuoteRaises(search_terms[ti])
  /\ LET url == search_url(platform, args.base_url.v, search_terms[ti].v) IN
     \/ /\ fetches' = Append(fetches, Call(TermKind[ti], url, FALSE))
        /\ outcome' = [outcome EXCEPT ![ti] = "unavailable"]
        /\ ti' = ti + 1
        /\ UNCHANGED <<pc, product_url>>
     \/ \E doc \in SearchDocs :
          /\ fetches' = Append(fetches, Call(TermKind[ti], url, TRUE))
          /\ IF ResultLink(doc) = 0
             THEN /\ outcome' = [outcome EXCEPT ![ti] = "nomatch"]
                  /\ ti' = ti + 1
                  /\ UNCHANGED <<pc, product_url>>
             ELSE IF ResultRaises(doc)
             THEN /\ outcome' = [outcome EXCEPT ![ti] = "raised"]
                  /\ pc' = "raised"
                  /\ UNCHANGED <<ti, product_url>>
             ELSE /\ outcome' = [outcome EXCEPT ![ti] = "hit"]
                  /\ product_url' = S(urljoin(args.base_url.v, doc[ResultLink(doc)].href.v))
                  /\ pc' = "found"
                  /\ UNCHANGED ti
  /\ UNCHANGED <<row, row0, args, platform, imgs, scraped>>
  /\ UNCHANGED <<probe, sync, proc>>

\* mutant: the fallback does not wait for the loop over the terms to end
Fallback_Early ==
  /\ pc = "terms"
  /\ ti \in 1..3
  /\ LET g_url == google_search(Fmt(args.name) \o <<" site:">> \o Fmt(args.base_url)) IN
     \/ /\ fetches' = Append(fetches, Call("fallback", g_url, FALSE))
        /\ product_url' = None
     \/ \E doc \in SearchDocs :
          /\ fetches' = Append(fetches, Call("fallback", g_url, TRUE))
          /\ product_url' =
               IF SelFallback(doc) # 0
               THEN S(FallbackHref(doc[SelFallback(doc)].href.v))
               ELSE None
  /\ pc' = "found"
  /\ UNCHANGED <<row, row0, args, platform, ti, outcome, imgs, scraped>>
  /\ UNCHANGED <<probe, sync, proc>>

\* search_engine.py:74-84
Fallback ==
  /\ pc = "terms"
  /\ ti = 3
  /\ LET g_url == google_search(Fmt(args.name) \o <<" site:">> \o Fmt(args.base_url)) IN
     \/ /\ fetches' = Append(fetches, Call("fallback", g_url, FALSE))
        /\ product_url' = None
     \/ \E doc \in SearchDocs :
          /\ fetches' = Append(fetches, Call("fallback", g_url, TRUE))
          /\ product_url' =
               IF SelFallback(doc) # 0
               THEN S(FallbackHref(doc[SelFallback(doc)].href.v))
               ELSE None
  /\ pc' = "found"
  /\ UNCHANGED <<row, row0, args, platform, ti, outcome, imgs, scraped>>
  /\ UNCHANGED <<probe, sync, proc>>

\* mutant: row["SCRAPED_PRODUCT_URL"] = product_url, without the: or ""
WriteUrl_NoDefault ==
  /\ pc = "found"
  /\ row' = Put(row, "SCRAPED_PRODUCT_URL", product_url)
  /\ pc' = IF ~Truthy(product_url) THEN "returned" ELSE "scrape"
  /\ platform' = "none"
  /\ ti' = 0
  /\ UNCHANGED <<row0, args, product_url, outcome, fetches, imgs, scraped>>
  /\ UNCHANGED <<probe, sync, proc>>

\* scraper_service.py:13-17
WriteUrl ==
  /\ pc = "found"
  /\ row' = Put(row, "SCRAPED_PRODUCT_URL", PyOr(product_url, S(<<>>)))
  /\ pc' = IF ~Truthy(product_url) THEN "returned" ELSE "scrape"
  /\ platform' = "none"           \* find_product_url's frame is gone
  /\ ti' = 0
  /\ UNCHANGED <<row0, args, product_url, outcome, fetches, imgs, scraped>>
  /\ UNCHANGED <<probe, sync, proc>>

\* scraper_service.py:19 and extractors.py:11-52
ScrapeProduct ==
  /\ pc = "scrape"
  /\ \/ /\ fetches' = Append(fetches, Call("product", product_url.v, FALSE))
        /\ scraped' = EmptyDict
        /\ UNCHANGED imgs
     \/ /\ Fetchable(product_url)
        /\ \E pg \in ProductPages :
             \E images \in ListOfSet(CollectImgs(pg.imgs)) :
               /\ imgs' = CollectImgs(pg.imgs)
               /\ scraped' = ScrapedOf(pg, images)
        /\ fetches' = Append(fetches, Call("product", product_url.v, TRUE))
  /\ pc' = "merge"
  /\ UNCHANGED <<row, row0, args, platform, ti, product_url, outcome>>
  /\ UNCHANGED <<probe, sync, proc>>

\* scraper_service.py:21-33
Merge ==
  /\ pc = "merge"
  /\ row' = MergeScraped(row, scraped)
  /\ pc' = "returned"
  /\ UNCHANGED <<row0, args, platform, ti, product_url, outcome,
                 fetches, imgs, scraped>>
  /\ UNCHANGED <<probe, sync, proc>>

Next ==
  \/ Enter
  \/ FetchHome
  \/ SkipTerm
  \/ SearchUrlRaises
  \/ SearchTerm
  \/ Fallback
  \/ WriteUrl
  \/ ScrapeProduct
  \/ Merge

Spec == Init /\ [][Next]_vars

\* --------------------------------------------------------------- type check
PcOk == pc \in {"enrich", "home", "terms", "found", "scrape", "merge", "returned", "raised"}

\* ------------------------------------------------- vocabulary of the claims
TextFields == {"TITLE", "PRICE", "DESCRIPTION_HTML"}
SiteFields == {"WEBSITE", "URL", "BASE_URL"}

IsSpace(s) == \A i \in 1..Len(s) : s[i] = " "

\* a field that is absent, null, empty or only whitespace
Blank(r, k) == k \notin DOMAIN r \/ r[k] = None \/ (IsStr(r[k]) /\ IsSpace(r[k].v))

\* a field that is absent, null or the empty string
Empty(r, k) == k \notin DOMAIN r \/ r[k] = None \/ r[k] = S(<<>>)

SiteEmpty(r) == \A k \in SiteFields : Empty(r, k)

\* same presence and same value of field k in both dicts
SameField(r1, r2, k) ==
  /\ (k \in DOMAIN r1) <=> (k \in DOMAIN r2)
  /\ k \in DOMAIN r1 => r1[k] = r2[k]

Fetched(kind)     == \E i \in 1..Len(fetches) : fetches[i].kind = kind
FetchedOk(kind)   == \E i \in 1..Len(fetches) : fetches[i].kind = kind /\ fetches[i].ok
FetchFailed(kind) == \E i \in 1..Len(fetches) : fetches[i].kind = kind /\ ~fetches[i].ok
Count(kind)       == Cardinality({i \in 1..Len(fetches) : fetches[i].kind = kind})

\* find_product_url was called and has returned
Located == pc \in {"found", "scrape", "merge"} \/ (pc = "returned" /\ args # NoArgs)

\* enrich_row_with_scraped_data has executed line 14
UrlWritten == pc \in {"scrape", "merge"} \/ (pc = "returned" /\ args # NoArgs)

NoCandidate(i) == outcome[i] \in {"empty", "unavailable", "nomatch"}

\* ------------------------------------------------------------------- claims

C3_FallbackOrdering ==
  /\ (Located /\ FetchedOk("home") /\ NoCandidate(1) /\ NoCandidate(2))
       => Count("fallback") = 1
  /\ Count("fallback") <= 1
  /\ Fetched("fallback") => (NoCandidate(1) /\ NoCandidate(2))
  /\ (outcome[1] = "hit" \/ outcome[2] = "hit") => ~Fetched("fallback")

\* C3 witness: the SKU search was unavailable, the name search matched no rule,
\* and the function returned after one fallback request.
C3_Witness ==
  /\ pc = "found"
  /\ outcome = <<"unavailable", "nomatch">>
  /\ Count("fallback") = 1
  /\ fetches[Len(fetches)].kind = "fallback"

\* C4: terms are searched in the order SKU, name; as soon as a term's result
\* page yields a candidate, find_product_url requests nothing more: after a
\* SKU hit neither the name search nor the fallback is ever requested.
C4_ShortCircuit ==
  /\ \A i, j \in 1..Len(fetches) :
       (fetches[i].kind = "sku" /\ fetches[j].kind = "name") => i < j
  /\ outcome[1] = "hit" =>
       /\ outcome[2] = "pending"
       /\ ~Fetched("name") /\ ~Fetched("fallback")
       /\ product_url # None
  /\ \A t \in 1..2 : outcome[t] = "hit" =>
       \E i \in 1..Len(fetches) :
         /\ fetches[i].kind = TermKind[t] /\ fetches[i].ok
         /\ \A j \in (i+1)..Len(fetches) : fetches[j].kind = "product"

\* C4 witness: the SKU search hit, the call went on to the product page and
\* returned, and the log holds exactly homepage, SKU search, product page.
C4_Witness ==
  /\ pc = "returned"
  /\ outcome[1] = "hit"
  /\ Truthy(args.name)
  /\ Len(fetches) = 3
  /\ fetches[1].kind = "home" /\ fetches[2].kind = "sku" /\ fetches[3].kind = "product"

\* C5: no exception escapes find_product_url, hence none escapes
\* enrich_row_with_scraped_data, for any row values and any documents.
C5_NoExceptionEscapes == pc # "raised"

\* C6: when a product URL was located but the product page could not be
\* fetched, TITLE, PRICE, DESCRIPTION_HTML, IMAGES and VARIANTS of the returned
\* row are as they were before the call.
C6_FailedScrapeLeavesFields ==
  (pc = "returned" /\ FetchFailed("product")) =>
    \A k \in TextFields \cup {"IMAGES", "VARIANTS"} : SameField(row, row0, k)

\* C7: after a product page was fetched and extracted, IMAGES and VARIANTS are
\* the ", "-joined scraped lists whatever they held before; empty lists clear
\* them to the empty string.
C7_UnconditionalMedia ==
  (pc = "returned" /\ FetchedOk("product")) =>
    /\ row["IMAGES"]   = S(Concat([i \in 1..(2 * Len(scraped["images"]) - 1) |->
                            IF i % 2 = 1 THEN scraped["images"][(i + 1) \div 2] ELSE <<", ">>]))
    /\ row["VARIANTS"] = S(Concat([i \in 1..(2 * Len(scraped["variants"]) - 1) |->
                            IF i % 2 = 1 THEN scraped["variants"][(i + 1) \div 2] ELSE <<", ">>]))
    /\ scraped["images"] = <<>> => row["IMAGES"] = S(<<>>)
    /\ scraped["variants"] = <<>> => row["VARIANTS"] = S(<<>>)

\* C7 witness: a page with two distinct images and no usable option was
\* extracted for a row that came with IMAGES and VARIANTS; IMAGES is now the
\* two URLs joined and VARIANTS the empty string.
C7_Witness ==
  /\ pc = "returned"
  /\ FetchedOk("product")
  /\ Get(row0, "IMAGES", None) = OldImages
  /\ Get(row0, "VARIANTS", None) = OldVariants
  /\ Len(scraped["images"]) = 2 /\ scraped["variants"] = <<>>
  /\ row["IMAGES"] = S(scraped["images"][1] \o <<", ">> \o scraped["images"][2])
  /\ row["VARIANTS"] = S(<<>>)

\* C8: once enrich has written SCRAPED_PRODUCT_URL it is the empty string or
\* an absolute URL, never null, whichever stage produced the candidate.
C8_UrlAbsoluteOrEmpty ==
  UrlWritten =>
    /\ "SCRAPED_PRODUCT_URL" \in DOMAIN row
    /\ IsStr(row["SCRAPED_PRODUCT_URL"])
    /\ \/ row["SCRAPED_PRODUCT_URL"].v = <<>>
       \/ IsAbsoluteUrl(row["SCRAPED_PRODUCT_URL"].v)

\* C9 as stated: when the site field is non-empty and find_product_url
\* returns none, the row comes back with no field written, SCRAPED_PRODUCT_URL
\* included.
C9_NotFoundUntouched ==
  (pc = "returned" /\ args # NoArgs /\ product_url = None) => row = row0

\* C9 amended: when the site field is non-empty and find_product_url returns
\* none, enrich sets SCRAPED_PRODUCT_URL to the empty string, leaves every
\* other field as it was and fetches no product page.
C9_NotFoundWritesEmptyUrl ==
  (pc = "returned" /\ args # NoArgs /\ product_url = None) =>
    /\ row = Put(row0, "SCRAPED_PRODUCT_URL", S(<<>>))
    /\ ~Fetched("product")

\* C9 witness: nothing was found after the fallback for a row that came with a
\* non-empty SCRAPED_PRODUCT_URL, which is now the empty string.
C9_Witness ==
  /\ pc = "returned"
  /\ product_url = None
  /\ Fetched("fallback")
  /\ Get(row0, "SCRAPED_PRODUCT_URL", None) = OldUrl
  /\ Get(row, "SCRAPED_PRODUCT_URL", None) = S(<<>>)

\* order-preserving de-duplication: each element once, at its first occurrence
RECURSIVE DedupFirst(_)
DedupFirst(l) ==
  IF l = <<>> THEN <<>>
  ELSE LET d == DedupFirst(SubSeq(l, 1, Len(l) - 1)) IN
         IF l[Len(l)] \in Range(d) THEN d ELSE Append(d, l[Len(l)])

\* C10: the images list of scrape_product holds each http-prefixed image URL
\* of the page once, in the order of first occurrence (data-src before src).
C10_ImagesFirstSeenOrder ==
  (pc \in {"merge", "returned"} /\ FetchedOk("product")) =>
    scraped["images"] = DedupFirst(imgs)

\* ------------------------------------------- the document functions alone
\* One behaviour is one call of detect_platform on a homepage body, or one
\* pass of a search-result document through the selector cascade of
\* find_product_url (lines 60-72), or one pass of the fallback response
\* through lines 77-84; the document is kept next to the result.

IdleEnrich ==
  /\ pc = "idle"
  /\ row = EmptyDict
  /\ row0 = EmptyDict
  /\ args = NoArgs
  /\ platform = "none"
  /\ ti = 0
  /\ product_url = None
  /\ outcome = [i \in 1..2 |-> "pending"]
  /\ fetches = <<>>
  /\ imgs = <<>>
  /\ scraped = EmptyDict

Pending == [kind |-> "pending", v |-> None]
Ret(x)  == [kind |-> "return", v |-> x]
Raised  == [kind |-> "raise", v |-> None]

DocInit ==
  /\ IdleEnrich
  /\ sync = NoSync
  /\ proc = NoProc
  /\ \/ \E body \in HomeBodies :
          probe = [fn |-> "detect_platform", ok |-> TRUE, doc |-> body, out |-> Pending]
     \/ \E doc \in SearchDocs :
          probe = [fn |-> "search", ok |-> TRUE, doc |-> doc, out |-> Pending]
     \/ \E ok \in BOOLEAN : \E doc \in SearchDocs :
          /\ ~ok => doc = <<>>
          /\ probe = [fn |-> "fallback", ok |-> ok, doc |-> doc, out |-> Pending]

\* search_engine.py:6-12
Detect ==
  /\ probe.fn = "detect_platform"
  /\ probe.out = Pending
  /\ probe' = [probe EXCEPT !.out = Ret(S(<<detect_platform(probe.doc)>>))]
  /\ UNCHANGED <<enrich_vars, sync, proc>>

\* search_engine.py:60-72, for base_url = "http://shop.example"
ExtractCandidate ==
  /\ probe.fn = "search"
  /\ probe.out = Pending
  /\ probe' = [probe EXCEPT !.out =
       IF ResultLink(probe.doc) = 0 THEN Ret(None)
       ELSE IF ResultRaises(probe.doc) THEN Raised
       ELSE Ret(S(urljoin(Shop, probe.doc[ResultLink(probe.doc)].href.v)))]
  /\ UNCHANGED <<enrich_vars, sync, proc>>

\* search_engine.py:76-84
FallbackLink ==
  /\ probe.fn = "fallback"
  /\ probe.out = Pending
  /\ probe' = [probe EXCEPT !.out =
       IF probe.ok /\ SelFallback(probe.doc) # 0
       THEN Ret(S(FallbackHref(probe.doc[SelFallback(probe.doc)].href.v)))
       ELSE Ret(None)]
  /\ UNCHANGED <<enrich_vars, sync, proc>>

DocNext ==
  \/ Detect
  \/ ExtractCandidate
  \/ FallbackLink

DocSpec == DocInit /\ [][DocNext]_vars

\* C11: detect_platform answers wordpress for every body with a WordPress or
\* WooCommerce token in any letter case, Shopify token or not; shopify for
\* every body with a Shopify token and no WordPress token; custom otherwise.
WpToks      == {"wp-content", "WP-CONTENT", "WooCommerce", "woocommerce"}
ShopifyToks == {"cdn.Shopify.com", "shopify"}

HasTok(body, toks) == \E i \in 1..Len(body) : body[i] \in toks

C11_PlatformFirstMatch ==
  (probe.fn = "detect_platform" /\ probe.out # Pending) =>
    /\ HasTok(probe.doc, WpToks) => probe.out = Ret(S(<<"wordpress">>))
    /\ (HasTok(probe.doc, ShopifyToks) /\ ~HasTok(probe.doc, WpToks))
         => probe.out = Ret(S(<<"shopify">>))
    /\ (~HasTok(probe.doc, ShopifyToks) /\ ~HasTok(probe.doc, WpToks))
         => probe.out = Ret(S(<<"custom">>))

\* C11 witness: a body with a Shopify token first and an upper-case WordPress
\* token after it has been classified wordpress.
C11_Witness ==
  /\ probe.fn = "detect_platform"
  /\ probe.doc = <<"cdn.Shopify.com", "WP-CONTENT">>
  /\ probe.out = Ret(S(<<"wordpress">>))

\* index of the first anchor whose href contains pat, 0 when there is none
FirstWith(doc, pat) ==
  LET hits == {i \in 1..Len(doc) : HasHref(doc[i]) /\ Contains(doc[i].href.v, pat)} IN
    IF hits = {} THEN 0 ELSE CHOOSE i \in hits : \A j \in hits : i <= j

\* an href without its redirect wrapper prefix and without what follows the
\* first "&"
Unwrapped(h) == IF h # <<>> /\ Head(h) = "/url?q=" THEN Tail(h) ELSE h

CutParams(h) ==
  LET amps == {i \in 1..Len(h) : h[i] \in AmpToks} IN
    IF amps = {} THEN h
    ELSE SubSeq(h, 1, (CHOOSE i \in amps : \A j \in amps : i <= j) - 1)

\* C12 as stated: a fetched fallback page with a link whose href contains
\* "product" makes find_product_url return the first such link, wrapper and
\* tracking parameters stripped; none is returned only when there is no such
\* link or the fetch was unavailable.
C12_FallbackAnyProduct ==
  (probe.fn = "fallback" /\ probe.out # Pending) =>
    LET k == FirstWith(probe.doc, "product") IN
      /\ (probe.ok /\ k # 0) =>
           probe.out = Ret(S(CutParams(Unwrapped(probe.doc[k].href.v))))
      /\ probe.out = Ret(None) => (~probe.ok \/ k = 0)

\* the place of each kind of fetch in the order of one enrich call
FetchRank ==
  [k \in {"home", "sku", "name", "fallback", "product"} |->
     CASE k = "home" -> 1 [] k = "sku" -> 2 [] k = "name" -> 3
       [] k = "fallback" -> 4 [] k = "product" -> 5]

\* C13: one enrich call issues at most 5 fetches, at most one of each kind
\* (homepage, SKU search, name search, fallback, product page), always in
\* that order, none retried, and nothing is fetched after an unavailable
\* homepage.
C13_BoundedOrderedFetches ==
  /\ Len(fetches) <= 5
  /\ \A i, j \in 1..Len(fetches) :
       i < j => FetchRank[fetches[i].kind] < FetchRank[fetches[j].kind]
  /\ Count("sku") + Count("name") <= 2
  /\ \A i \in 1..Len(fetches) :
       (fetches[i].kind = "home" /\ ~fetches[i].ok) => Len(fetches) = i

\* C13 witness: a finished call that made all five fetches, homepage first
\* and product page last.
C13_Witness ==
  /\ pc = "returned"
  /\ Len(fetches) = 5
  /\ fetches[1].kind = "home"
  /\ fetches[4].kind = "fallback"
  /\ fetches[5].kind = "product"

\* index of the first WooCommerce product-loop anchor, 0 when there is none
FirstWoo(doc) ==
  LET hits == {i \in 1..Len(doc) : doc[i].woo} IN
    IF hits = {} THEN 0 ELSE CHOOSE i \in hits : \A j \in hits : i <= j

\* the anchor the ordered rule table designates in a result page
TableWinner(doc) ==
  IF FirstWith(doc, "/products/") # 0 THEN FirstWith(doc, "/products/")
  ELSE IF FirstWoo(doc) # 0 THEN FirstWoo(doc)
  ELSE FirstWith(doc, "product")

\* C14: on a search-result page the candidate is the first link whose href
\* contains /products/, otherwise the first WooCommerce product-loop anchor,
\* otherwise the first link whose href contains product, otherwise there is
\* no candidate; the winning href is resolved against the base URL and a
\* lower rule is never used when a higher one matches.
C14_RuleTable ==
  (probe.fn = "search" /\ probe.out # Pending) =>
    LET w == TableWinner(probe.doc) IN
      /\ probe.out # Raised
      /\ w = 0 => probe.out = Ret(None)
      /\ (w # 0 /\ HasHref(probe.doc[w])) =>
           probe.out = Ret(S(urljoin(Shop, probe.doc[w].href.v)))

----------------------------------------------------------------------------
\* google_drive_service.py: sync_all_vendor_files over the vendor folders of
\* the Drive.  Every Drive request and the processing callback can raise.

MaxVendors == 2
MaxFiles   == 2

\* a file name is a numbered stem followed by its extension
Exts == {".csv", ".Csv", ".XLS", ".xlsx", ".pdf"}
FileName(n, ext) == <<n, ext>>

\* google_drive_service.py:132-141
is_vendor_file(name) ==
  Lower(name[Len(name)]) \in {".csv", ".xls", ".xlsx"}

\* what list_files_in_folder returns for one vendor folder
Listings ==
  UNION {[1..n -> Exts] : n \in 0..MaxFiles}

\* what list_vendor_folders returns: the vendors, each with its listing
Drives ==
  UNION {[1..n -> Listings] : n \in 1..MaxVendors}

SyncInit ==
  /\ IdleEnrich
  /\ probe = NoProbe
  /\ proc = NoProc
  /\ \E d \in Drives :
       sync = [pc         |-> "start",
               drive      |-> d,
               v          |-> 0,
               f          |-> 0,
               downloaded |-> {},
               completed  |-> {},
               failed     |-> {},
               moved      |-> <<>>,
               summary    |-> <<>>,
               cause      |-> "none"]

\* the file the loop is at: its id, its name
FileId   == <<sync.v, sync.f>>
NameOf(id) == FileName(id[2], sync.drive[id[1]][id[2]])

Entry(id, status) == [vendor |-> id[1], file |-> NameOf(id), status |-> status]
Move(id, folder)  == [id |-> id, to |-> folder]

\* google_drive_service.py:218-221
ListVendors ==
  /\ sync.pc = "start"
  /\ \/ sync' = [sync EXCEPT !.pc = "raised", !.cause = "folder"]
     \/ sync' = [sync EXCEPT !.pc = "vendor", !.v = 1]
  /\ UNCHANGED <<enrich_vars, probe, proc>>

\* google_drive_service.py:223-232
OpenVendor ==
  /\ sync.pc = "vendor"
  /\ sync.v <= Len(sync.drive)
  /\ \/ sync' = [sync EXCEPT !.pc = "raised", !.cause = "folder"]
     \/ sync' = [sync EXCEPT !.pc = "file", !.f = 1]
  /\ UNCHANGED <<enrich_vars, probe, proc>>

\* google_drive_service.py:234-240
SkipFile ==
  /\ sync.pc = "file"
  /\ sync.f <= Len(sync.drive[sync.v])
  /\ ~is_vendor_file(NameOf(FileId))
  /\ sync' = [sync EXCEPT !.f = @ + 1]
  /\ UNCHANGED <<enrich_vars, probe, proc>>

\* google_drive_service.py:243
Download ==
  /\ sync.pc = "file"
  /\ sync.f <= Len(sync.drive[sync.v])
  /\ is_vendor_file(NameOf(FileId))
  /\ \/ sync' = [sync EXCEPT !.pc = "raised", !.cause = "file"]
     \/ sync' = [sync EXCEPT !.pc = "try", !.downloaded = @ \cup {FileId}]
  /\ UNCHANGED <<enrich_vars, probe, proc>>

\* google_drive_service.py:260-272, the except branch
Except(s) ==
  {[s EXCEPT !.pc = "raised", !.cause = "file"],
   [s EXCEPT !.pc = "file", !.f = @ + 1,
             !.moved = Append(@, Move(FileId, "_ERRORS")),
             !.summary = Append(@, Entry(FileId, "error"))]}

\* google_drive_service.py:245-272
ProcessAndMove ==
  /\ sync.pc = "try"
  /\ \/ sync' = [sync EXCEPT !.pc = "file", !.f = @ + 1,
                             !.completed = @ \cup {FileId},
                             !.moved = Append(@, Move(FileId, "_PROCESSED")),
                             !.summary = Append(@, Entry(FileId, "processed"))]
     \/ sync' \in Except([sync EXCEPT !.completed = @ \cup {FileId}])
     \/ sync' \in Except([sync EXCEPT !.failed = @ \cup {FileId}])
  /\ UNCHANGED <<enrich_vars, probe, proc>>

\* google_drive_service.py:234, the listing is exhausted
NextVendor ==
  /\ sync.pc = "file"
  /\ sync.f > Len(sync.drive[sync.v])
  /\ sync' = [sync EXCEPT !.pc = "vendor", !.v = @ + 1, !.f = 0]
  /\ UNCHANGED <<enrich_vars, probe, proc>>

\* google_drive_service.py:274
ReturnSummary ==
  /\ sync.pc = "vendor"
  /\ sync.v > Len(sync.drive)
  /\ sync' = [sync EXCEPT !.pc = "returned"]
  /\ UNCHANGED <<enrich_vars, probe, proc>>

SyncNext ==
  \/ ListVendors
  \/ OpenVendor
  \/ SkipFile
  \/ Download
  \/ ProcessAndMove
  \/ NextVendor
  \/ ReturnSummary

SyncSpec == SyncInit /\ [][SyncNext]_vars

\* the files listed in the vendor folders, and those among them that are
\* CSV/XLS/XLSX files
ListedFiles ==
  {id \in (1..Len(sync.drive)) \X (1..MaxFiles + 1) : id[2] <= Len(sync.drive[id[1]])}

VendorFiles == {id \in ListedFiles : is_vendor_file(NameOf(id))}

MovesOf(id)   == {i \in 1..Len(sync.moved) : sync.moved[i].id = id}
EntriesOf(id) ==
  {i \in 1..Len(sync.summary) :
     sync.summary[i].vendor = id[1] /\ sync.summary[i].file = NameOf(id)}

\* the call is over and was not cut short by a failure on a folder
SyncOver ==
  \/ sync.pc = "returned"
  \/ sync.pc = "raised" /\ sync.cause = "file"

\* C15: every CSV/XLS/XLSX file listed in a vendor folder is moved exactly
\* once, to _PROCESSED exactly when its processing call completed without
\* error and to _ERRORS otherwise, with exactly one summary entry whose
\* status matches the folder; other files are never downloaded, processed or
\* moved; a failure on one file does not keep the remaining files and
\* vendors from being processed.
C15_FileDisposition ==
  sync.pc # "none" =>
    /\ \A id \in ListedFiles \ VendorFiles :
         /\ id \notin sync.downloaded \cup sync.completed \cup sync.failed
         /\ MovesOf(id) = {}
         /\ EntriesOf(id) = {}
    /\ \A id \in VendorFiles :
         /\ Cardinality(MovesOf(id)) <= 1
         /\ Cardinality(EntriesOf(id)) = Cardinality(MovesOf(id))
         /\ \A i \in MovesOf(id) :
              /\ sync.moved[i].to = "_PROCESSED" <=> id \in sync.completed
              /\ sync.moved[i].to = "_ERRORS" <=> id \notin sync.completed
              /\ \A j \in EntriesOf(id) :
                   sync.summary[j].status =
                     IF sync.moved[i].to = "_PROCESSED" THEN "processed" ELSE "error"
    /\ SyncOver =>
         \A id \in VendorFiles :
           Cardinality(MovesOf(id)) = 1 /\ Cardinality(EntriesOf(id)) = 1

----------------------------------------------------------------------------
\* processor_products.py: process_product_file_bytes over the rows of one
\* normalized spreadsheet.  The enrich call is taken by what it can return
\* for a row, the Shopify calls by what they can answer.

MaxRows == 2

\* shopify_product_service.py:27-33
_safe_str(value) ==
  IF value = None THEN <<>>
  ELSE LET text == Strip(value.v) IN
         IF lower(text) = <<"nan">> THEN <<>> ELSE text

\* shopify_product_service.py:83-121, the fields the processor reads
build_product_payload(r) ==
  [title |-> _safe_str(Get(r, "TITLE", None)),
   sku   |-> _safe_str(Get(r, "SKU", None))]

\* the cells of a sheet row: TITLE and SKU, the site is always given
SheetTitles == {Missing, NaN, S(<<" ">>), S(<<"NaN">>), S(<<"Red Mug">>)}
SheetSkus   == {NaN, S(<<"ABC123">>), S(<<" ", "abc123">>)}

SheetRows ==
  {MkRow(<<t, k, S(Shop), Missing, Missing, Missing, Missing, Missing,
           Missing, Missing>>) : t \in SheetTitles, k \in SheetSkus}

Sheets == UNION {[1..n -> SheetRows] : n \in 0..MaxRows}

\* extractors.py:11-52, what scrape_product can hand to the merge
Scrapes ==
  {EmptyDict} \cup
  {ScrapedOf([title_els |-> te[1], price_els |-> te[2], desc_els |-> te[3],
              imgs |-> <<>>, options |-> <<>>], <<>>) : te \in TextEls}

\* scraper_service.py:4-33, the rows one enrich call can return for r
EnrichReturns(r) ==
  {Put(r, "SCRAPED_PRODUCT_URL", S(<<>>))} \cup
  {MergeScraped(Put(r, "SCRAPED_PRODUCT_URL", S(Shop \o <<"/products/", "mug">>)), sc) :
     sc \in Scrapes}

\* the SKUs find_product_by_sku sees in the store, stripped and lower-cased
Catalogs == {{}, {<<"abc123">>}}

ProcInit ==
  /\ IdleEnrich
  /\ probe = NoProbe
  /\ sync = NoSync
  /\ \E df \in Sheets : \E cat \in Catalogs :
       proc = [pc            |-> "start",
               df            |-> df,
               idx           |-> 0,
               row_dict      |-> EmptyDict,
               existing      |-> FALSE,
               created       |-> 0,
               updated       |-> 0,
               skipped       |-> 0,
               enriched_rows |-> <<>>,
               counted       |-> <<>>,
               calls         |-> <<>>,
               catalog       |-> cat]

Enriched(i, r) == [idx |-> i, row |-> r]
Counted(i, b)  == [idx |-> i, bucket |-> b]
CallOf(i, op)  == [idx |-> i, op |-> op]

payload == build_product_payload(proc.row_dict)

\* processor_products.py:49-63
CheckEmpty ==
  /\ proc.pc = "start"
  /\ IF proc.df = <<>>
     THEN proc' = [proc EXCEPT !.pc = "returned"]
     ELSE proc' = [proc EXCEPT !.pc = "row", !.idx = 1]
  /\ UNCHANGED <<enrich_vars, probe, sync>>

\* processor_products.py:68-84
EnrichRow ==
  /\ proc.pc = "row"
  /\ proc.idx <= Len(proc.df)
  /\ \/ proc' = [proc EXCEPT !.pc = "raised"]
     \/ \E r \in EnrichReturns(proc.df[proc.idx]) :
          proc' = [proc EXCEPT !.pc = "check", !.row_dict = r]
  /\ UNCHANGED <<enrich_vars, probe, sync>>

\* mutant: a skipped row is counted but left out of the enriched rows
SkipRow_NoAppend ==
  /\ proc.pc = "check"
  /\ (Strip(payload.title) = <<>> \/ Strip(payload.sku) = <<>>)
  /\ proc' = [proc EXCEPT !.pc = "row", !.idx = @ + 1,
                          !.skipped = @ + 1,
                          !.counted = Append(@, Counted(proc.idx, "skipped"))]
  /\ UNCHANGED <<enrich_vars, probe, sync>>

\* processor_products.py:86-90
SkipRow ==
  /\ proc.pc = "check"
  /\ (Strip(payload.title) = <<>> \/ Strip(payload.sku) = <<>>)
  /\ proc' = [proc EXCEPT !.pc = "row", !.idx = @ + 1,
                          !.skipped = @ + 1,
                          !.counted = Append(@, Counted(proc.idx, "skipped")),
                          !.enriched_rows = Append(@, Enriched(proc.idx, proc.row_dict))]
  /\ UNCHANGED <<enrich_vars, probe, sync>>

\* processor_products.py:93 and shopify_product_service.py:50-77
Lookup ==
  /\ proc.pc = "check"
  /\ ~(Strip(payload.title) = <<>> \/ Strip(payload.sku) = <<>>)
  /\ \/ proc' = [proc EXCEPT !.pc = "raised",
                             !.calls = Append(@, CallOf(proc.idx, "find"))]
     \/ proc' = [proc EXCEPT !.pc = "upsert",
                             !.calls = Append(@, CallOf(proc.idx, "find")),
                             !.existing = lower(payload.sku) \in proc.catalog]
  /\ UNCHANGED <<enrich_vars, probe, sync>>

\* processor_products.py:101-109, 120
UpdateProduct ==
  /\ proc.pc = "upsert"
  /\ proc.existing
  /\ \/ proc' = [proc EXCEPT !.pc = "raised",
                             !.calls = Append(@, CallOf(proc.idx, "update"))]
     \/ proc' = [proc EXCEPT !.pc = "raised",
                             !.updated = @ + 1,
                             !.counted = Append(@, Counted(proc.idx, "updated")),
                             !.calls = Append(@, CallOf(proc.idx, "update"))]
     \/ proc' = [proc EXCEPT !.pc = "row", !.idx = @ + 1,
                             !.updated = @ + 1,
                             !.counted = Append(@, Counted(proc.idx, "updated")),
                             !.calls = Append(@, CallOf(proc.idx, "update")),
                             !.enriched_rows = Append(@, Enriched(proc.idx, proc.row_dict))]
  /\ UNCHANGED <<enrich_vars, probe, sync>>

\* processor_products.py:111-120
CreateProduct ==
  /\ proc.pc = "upsert"
  /\ ~proc.existing
  /\ \/ proc' = [proc EXCEPT !.pc = "raised",
                             !.calls = Append(@, CallOf(proc.idx, "create"))]
     \/ proc' = [proc EXCEPT !.pc = "row", !.idx = @ + 1,
                             !.created = @ + 1,
                             !.counted = Append(@, Counted(proc.idx, "created")),
                             !.calls = Append(@, CallOf(proc.idx, "create")),
                             !.catalog = @ \cup {lower(payload.sku)},
                             !.enriched_rows = Append(@, Enriched(proc.idx, proc.row_dict))]
  /\ UNCHANGED <<enrich_vars, probe, sync>>

\* processor_products.py:125-145
SaveAndReturn ==
  /\ proc.pc = "row"
  /\ proc.idx > Len(proc.df)
  /\ \/ proc' = [proc EXCEPT !.pc = "raised"]
     \/ proc' = [proc EXCEPT !.pc = "returned"]
  /\ UNCHANGED <<enrich_vars, probe, sync>>

ProcNext ==
  \/ CheckEmpty
  \/ EnrichRow
  \/ SkipRow
  \/ Lookup
  \/ UpdateProduct
  \/ CreateProduct
  \/ SaveAndReturn

ProcSpec == ProcInit /\ [][ProcNext]_vars

\* a text that only spells the missing value
NanText(s) == SelectSeq(s, LAMBDA tok : tok # " ") \in {<<"nan">>, <<"NaN">>}

\* a cell without content: absent, null, NaN, only whitespace, or the text of
\* the missing value
BlankCell(r, k) ==
  \/ k \notin DOMAIN r
  \/ r[k] = None
  \/ r[k] = NaN
  \/ IsStr(r[k]) /\ (IsSpace(r[k].v) \/ NanText(r[k].v))

CountedAs(b)  == {c \in 1..Len(proc.counted) : proc.counted[c].bucket = b}
BucketsOf(i)  == {proc.counted[c].bucket : c \in {c \in 1..Len(proc.counted) : proc.counted[c].idx = i}}
TimesCounted(i) == Cardinality({c \in 1..Len(proc.counted) : proc.counted[c].idx = i})
CallsFor(i)   == {c \in 1..Len(proc.calls) : proc.calls[c].idx = i}

\* C16: when process_product_file_bytes returns a summary, every row was
\* counted in exactly one of created, updated, skipped, the three add up to
\* the number of rows, the enriched output has one row per input row in the
\* same order, a row is skipped exactly when its title or SKU is blank after
\* enrichment, and no catalog lookup, create or update is made for it.
C16_RowAccounting ==
  proc.pc = "returned" =>
    /\ proc.created + proc.updated + proc.skipped = Len(proc.df)
    /\ proc.created = Cardinality(CountedAs("created"))
    /\ proc.updated = Cardinality(CountedAs("updated"))
    /\ proc.skipped = Cardinality(CountedAs("skipped"))
    /\ Len(proc.enriched_rows) = Len(proc.df)
    /\ \A i \in 1..Len(proc.df) :
         /\ TimesCounted(i) = 1
         /\ proc.enriched_rows[i].idx = i
         /\ "skipped" \in BucketsOf(i) <=>
              \/ BlankCell(proc.enriched_rows[i].row, "TITLE")
              \/ BlankCell(proc.enriched_rows[i].row, "SKU")
         /\ "skipped" \in BucketsOf(i) => CallsFor(i) = {}

\* C16 witness: a returned summary over two rows, one skipped and one
\* updated, the updated one having come in without a title that the
\* enrichment filled.
C16_Witness ==
  /\ proc.pc = "returned"
  /\ Len(proc.df) = 2
  /\ proc.skipped = 1
  /\ proc.updated = 1
  /\ \E i \in 1..2 :
       /\ BlankCell(proc.df[i], "TITLE")
       /\ BucketsOf(i) = {"updated"}

====
